---- MODULE Spec2Model ----
(***************************************************************************)
(* Model of the OceanInsightUVVIS reader: UVVisSpectrum.read and           *)
(* UVVisSpectrum._extract_metadata (uvvis/uvvis_spectrum.py), unitmanager  *)
(* (utilities/pintutils/unitmanager.py) and MultipleJsonEncoders           *)
(* (utilities/jsonutils/multiplejsonencoders.py).                          *)
(*                                                                         *)
(* Text is a sequence of atoms.  An atom is a run of characters that the   *)
(* reader never looks inside: a word, a number, a clock time.  The         *)
(* characters the reader does look for are atoms of their own: ":", " "    *)
(* and the tab.  No word atom starts or ends with one of them, so the      *)
(* separator ": " occurs in a text exactly where the atoms ":" and " "     *)
(* follow each other.                                                      *)
(***************************************************************************)
EXTENDS Integers, Sequences, FiniteSets, TLC

VARIABLES filename, header, metadata, data,
          pc, first_line, data_block, x_values, y_values,
          consumed, eof, open_result, outcome, printed, reads

\* a MultipleJsonEncoders object and the call of its default in progress
VARIABLES encoders, enc_args, enc_obj, enc_pc, enc_i, enc_tried, enc_result

\* a call of unitmanager: its arguments and what it returned
VARIABLES um_label, um_unit, um_value, um_called, um_out

readvars == <<filename, header, metadata, data,
              pc, first_line, data_block, x_values, y_values,
              consumed, eof, open_result, outcome, printed, reads>>

encvars == <<encoders, enc_args, enc_obj, enc_pc, enc_i, enc_tried, enc_result>>

unitvars == <<um_label, um_unit, um_value, um_called, um_out>>

vars == <<readvars, encvars, unitvars>>

\* ---------------------------------------------------------------- bounds

\* The longest file read under Spec, in lines.
MaxLines == 4

\* The most converters handed to one MultipleJsonEncoders.
MaxEncoders == 3

\* The longest file read under SpecMeta, in lines.
MaxMetaLines == 6

\* The most calls of read on one instance, the constructor's included.
MaxReads == 2

\* ------------------------------------------------------------------ text

TAB == "\t"
SP == " "
COLON == ":"
MARKER == ">>>>>Begin Spectral Data<<<<<"
None == "<None>"

Whitespace == {SP, TAB}

EmptyDict == [k \in {} |-> <<>>]

\* d[k] = v of a Python dict
Put(d, k, v) == [x \in (DOMAIN d) \cup {k} |-> IF x = k THEN v ELSE d[x]]

Front(s) == SubSeq(s, 1, Len(s) - 1)
Last(s) == s[Len(s)]

\* str.rstrip(): trailing whitespace removed
RECURSIVE rstrip(_)
rstrip(s) ==
    IF s = <<>> THEN <<>>
    ELSE IF Last(s) \in Whitespace THEN rstrip(Front(s))
    ELSE s

\* leading whitespace removed
RECURSIVE lstrip(_)
lstrip(s) ==
    IF s = <<>> THEN <<>>
    ELSE IF Head(s) \in Whitespace THEN lstrip(Tail(s))
    ELSE s

\* str.strip(), which int() and float() apply to their argument
strip(s) == lstrip(rstrip(s))

\* whether sep occurs in s at position i
OccursAt(s, sep, i) ==
    /\ i + Len(sep) - 1 <= Len(s)
    /\ SubSeq(s, i, i + Len(sep) - 1) = sep

\* the positions of s where sep occurs
Occurrences(s, sep) == {i \in 1..Len(s) : OccursAt(s, sep, i)}

\* the least element of a non-empty set of numbers
Least(S) == CHOOSE i \in S : \A j \in S : i <= j

\* str.split(sep): s cut at every occurrence of sep, left to right
RECURSIVE split(_, _)
split(s, sep) ==
    IF Occurrences(s, sep) = {} THEN <<s>>
    ELSE LET i == Least(Occurrences(s, sep))
         IN  <<SubSeq(s, 1, i - 1)>>
                 \o split(SubSeq(s, i + Len(sep), Len(s)), sep)

\* str.split() without a separator: the runs between whitespace, none empty
RECURSIVE splitws(_)
splitws(s) ==
    LET t == lstrip(s)
    IN  IF t = <<>> THEN <<>>
        ELSE LET ws == {i \in 1..Len(t) : t[i] \in Whitespace}
             IN  IF ws = {} THEN <<t>>
                 ELSE <<SubSeq(t, 1, Least(ws) - 1)>>
                          \o splitws(SubSeq(t, Least(ws), Len(t)))

\* str.lower() of one atom
LowerAtom(a) ==
    CASE a = "Wavelengths" -> "wavelengths"
      [] a = "WAVELENGTHS" -> "wavelengths"
      [] a = "False" -> "false"
      [] a = "FALSE" -> "false"
      [] a = "True" -> "true"
      [] a = "Pixels" -> "pixels"
      [] OTHER -> a

\* str.lower()
lower(s) == [i \in 1..Len(s) |-> LowerAtom(s[i])]

\* ----------------------------------------------------------- conversions

\* The numbers float() reads, in thousandths.
FloatTable ==
    [a \in {"200.1", "850.0", "0.023", "0.011", "0.5", "1e3", "1000"} |->
        CASE a = "200.1" -> 200100
          [] a = "850.0" -> 850000
          [] a = "0.023" -> 23
          [] a = "0.011" -> 11
          [] a = "0.5" -> 500
          [] a = "1e3" -> 1000000
          [] a = "1000" -> 1000000]

\* whether float(s) returns: s, stripped, is one number
IsFloat(s) == Len(strip(s)) = 1 /\ strip(s)[1] \in DOMAIN FloatTable

\* float(s), where it returns
Float(s) == FloatTable[strip(s)[1]]

\* The numbers int() reads.
IntTable ==
    [a \in {"0", "4", "10", "27", "31", "2020", "2048"} |->
        CASE a = "0" -> 0
          [] a = "4" -> 4
          [] a = "10" -> 10
          [] a = "27" -> 27
          [] a = "31" -> 31
          [] a = "2020" -> 2020
          [] a = "2048" -> 2048]

\* whether int(s) returns: s, stripped, is one whole number
IsInt(s) == Len(strip(s)) = 1 /\ strip(s)[1] \in DOMAIN IntTable

\* int(s), where it returns
Int_(s) == IntTable[strip(s)[1]]

\* ----------------------------------------------------------- unitmanager

\* f"{unit:~}": the unit's short form; dimensionless prints as nothing
UnitShort(unit) ==
    CASE unit = "nanometer" -> <<"nm">>
      [] unit = "second" -> <<"s">>
      [] unit = "dimensionless" -> <<>>

\* f"{value}" of the numbers the model hands to unitmanager
NumberText(v) ==
    CASE v = 0 -> <<"0">>
      [] v = 1 -> <<"1">>
      [] v = 280 -> <<"280">>

\* Python's truth value of the optional number: None and 0 are false.
\* An optional number is <<>> (None) or <<v>>.
Truthy(value) == value # <<>> /\ value[1] # 0

\* unitmanager(label, unit, value); unit None stands for dimensionless
unitmanager(label, unit, value) ==
    LET u == IF unit = None THEN "dimensionless" ELSE unit
        short == UnitShort(u)
        out == [name |-> label,
                unit |-> short,
                label |-> IF short = <<>> THEN label
                          ELSE label \o <<SP, "(">> \o short \o <<")">>]
    IN  IF Truthy(value)
        THEN [k \in {"name", "unit", "label", "value", "quantity"} |->
                CASE k = "value" -> value[1]
                  [] k = "quantity" ->
                        IF short = <<>> THEN NumberText(value[1])
                        ELSE NumberText(value[1]) \o <<SP>> \o short
                  [] OTHER -> out[k]]
        ELSE out

\* ------------------------------------------------------ _date_to_isoformat

\* datetime.strptime(m, "%b").month
MonthTable == [a \in {"Jan", "Feb"} |-> IF a = "Jan" THEN 1 ELSE 2]

\* the days date(year, month, day) accepts in the months of MonthTable
DaysIn(year, month) ==
    IF month = 1 THEN 31
    ELSE IF year % 4 = 0 /\ (year % 100 # 0 \/ year % 400 = 0) THEN 29
    ELSE 28

\* the clock times time.fromisoformat reads
TimeAtoms == {"15:05:24"}

\* the zones pytz.timezone knows, with the offset isoformat() prints
ZoneTable == [a \in {"GMT", "UTC"} |-> "+00:00"]

\* _date_to_isoformat on the header's Date: the text of the ISO 8601 date,
\* or the exception the first failing statement raises
date_to_isoformat(h) ==
    LET date_parts == splitws(h[<<"Date">>])
        atom(i) == date_parts[i][1]
        year == Int_(date_parts[6])
        month == MonthTable[atom(2)]
        day == Int_(date_parts[3])
    IN  IF Len(date_parts) < 6 THEN [err |-> "IndexError", val |-> <<>>]
        ELSE IF ~IsInt(date_parts[6]) THEN [err |-> "ValueError", val |-> <<>>]
        ELSE IF Len(date_parts[2]) # 1 \/ atom(2) \notin DOMAIN MonthTable
            THEN [err |-> "ValueError", val |-> <<>>]
        ELSE IF ~IsInt(date_parts[3]) THEN [err |-> "ValueError", val |-> <<>>]
        ELSE IF day < 1 \/ day > DaysIn(year, month)
            THEN [err |-> "ValueError", val |-> <<>>]
        ELSE IF Len(date_parts[4]) # 1 \/ atom(4) \notin TimeAtoms
            THEN [err |-> "ValueError", val |-> <<>>]
        ELSE IF Len(date_parts[5]) # 1 \/ atom(5) \notin DOMAIN ZoneTable
            THEN [err |-> "UnknownTimeZoneError", val |-> <<>>]
        ELSE [err |-> "none",
              val |-> <<[year |-> year, month |-> month, day |-> day,
                         time |-> atom(4),
                         offset |-> ZoneTable[atom(5)]]>>]

\* -------------------------------------------------------- _extract_metadata

\* a header key written as one atom
Key(a) == <<a>>

\* The state of _extract_metadata between two statements: the metadata
\* written so far and the exception raised, "none" while it runs.

\* self._metadata[mkey] = int(self._header[hkey]), if hkey is in the header
IntField(st, h, hkey, mkey) ==
    IF st.err # "none" \/ Key(hkey) \notin DOMAIN h THEN st
    ELSE IF ~IsInt(h[Key(hkey)]) THEN [st EXCEPT !.err = "ValueError"]
    ELSE [st EXCEPT !.md = Put(st.md, mkey, Int_(h[Key(hkey)]))]

\* dwell-time: ureg.Quantity(float(header value), ureg.sec)
DwellField(st, h) ==
    LET hkey == Key("Integration Time (sec)")
    IN  IF st.err # "none" \/ hkey \notin DOMAIN h THEN st
        ELSE IF ~IsFloat(h[hkey]) THEN [st EXCEPT !.err = "ValueError"]
        ELSE [st EXCEPT !.md = Put(st.md, "dwell-time",
                  [magnitude |-> Float(h[hkey]), units |-> "second"])]

\* BoolField with the comparison made without lower()
BoolField_CaseSensitive(st, h, hkey) ==
    IF st.err # "none" \/ Key(hkey) \notin DOMAIN h THEN st
    ELSE [st EXCEPT !.md = Put(st.md, hkey,
              IF h[Key(hkey)] = <<"false">> THEN FALSE ELSE TRUE)]

\* the boolean fields: False when the value's lower() is 'false', else True
BoolField(st, h, hkey) ==
    IF st.err # "none" \/ Key(hkey) \notin DOMAIN h THEN st
    ELSE [st EXCEPT !.md = Put(st.md, hkey,
              IF lower(h[Key(hkey)]) = <<"false">> THEN FALSE ELSE TRUE)]

\* Abscissa with the comparison made without lower()
Abscissa_CaseSensitive(h) ==
    IF Key("XAxis mode") \in DOMAIN h
    THEN IF h[Key("XAxis mode")] = <<"wavelengths">>
         THEN unitmanager(<<"wavelength">>, "nanometer", <<>>)
         ELSE unitmanager(h[Key("XAxis mode")], "dimensionless", <<>>)
    ELSE unitmanager(<<"x">>, "dimensionless", <<>>)

\* the x axis: from 'XAxis mode' if the header has it, else 'x'
Abscissa(h) ==
    IF Key("XAxis mode") \in DOMAIN h
    THEN IF lower(h[Key("XAxis mode")]) = <<"wavelengths">>
         THEN unitmanager(<<"wavelength">>, "nanometer", <<>>)
         ELSE unitmanager(h[Key("XAxis mode")], "dimensionless", <<>>)
    ELSE unitmanager(<<"x">>, "dimensionless", <<>>)

\* the y axis: always absorbance, dimensionless
Ordinate == unitmanager(<<"absorbance">>, "dimensionless", <<>>)

\* both axes; neither statement raises
AxesFields(st, h) ==
    IF st.err # "none" THEN st
    ELSE [st EXCEPT !.md = Put(Put(st.md, "abscissa", Abscissa(h)),
                               "ordinate", Ordinate)]

\* acquisition-date, if the header has a Date
DateField(st, h) ==
    IF st.err # "none" \/ Key("Date") \notin DOMAIN h THEN st
    ELSE LET r == date_to_isoformat(h)
         IN  IF r.err # "none" THEN [st EXCEPT !.err = r.err]
             ELSE [st EXCEPT !.md = Put(st.md, "acquisition-date", r.val[1])]

\* the instrument: the vendor, and the spectrometer if the header names it
Instrument(h) ==
    IF Key("Spectrometer") \in DOMAIN h
    THEN [vendor |-> "Ocean Insight", spectrometer |-> h[Key("Spectrometer")]]
    ELSE [vendor |-> "Ocean Insight"]

\* the fields written before the first statement that can raise
FixedFields(md, h) ==
    Put(Put(Put(Put(md, "vendor_header", h),
                "technique", "UV-vis spectroscopy"),
            "technique-iri", "http://purl.obolibrary.org/obo/CHMO_0000292"),
        "instrument", Instrument(h))

\* _extract_metadata run on metadata md and header h: the metadata it
\* leaves and the exception it raises, "none" if it returns
extract_metadata(md, h) ==
    LET s0 == [md |-> FixedFields(md, h), err |-> "none"]
        s1 == IntField(s0, h, "Trigger mode", "Trigger mode")
        s2 == IntField(s1, h, "Scans to average", "scans")
        s3 == DwellField(s2, h)
        s4 == BoolField(s3, h, "Nonlinearity correction enabled")
        s5 == IntField(s4, h, "Boxcar width", "Boxcar width")
        s6 == BoolField(s5, h, "Storing dark spectrum")
        s7 == AxesFields(s6, h)
        s8 == IntField(s7, h, "Number of Pixels in Spectrum",
                       "number-of-data-points")
    IN  DateField(s8, h)

\* --------------------------------------------------------------------- read

\* pd.DataFrame()
EmptyFrame == [columns |-> <<>>, rows |-> <<>>]

\* list(zip(xs, ys)): pairs up to the shorter list
zip(xs, ys) ==
    [i \in 1..(IF Len(xs) <= Len(ys) THEN Len(xs) ELSE Len(ys)) |->
        <<xs[i], ys[i]>>]

\* pd.DataFrame(list(zip(x_values, y_values)), columns=[x_label, y_label])
DataFrame(xs, ys, x_label, y_label) ==
    [columns |-> <<x_label, y_label>>, rows |-> zip(xs, ys)]

\* The loop's state between two lines: the header and the locals of read,
\* and the exception raised, "none" while the loop runs.
LoopState(h, xs, ys, first, block) ==
    [header |-> h, x_values |-> xs, y_values |-> ys,
     first_line |-> first, data_block |-> block, err |-> "none"]

\* DataLine that passes over a line it cannot read
DataLine_SkipBad(st, line) ==
    LET tokens == split(line, <<TAB>>)
    IN  IF Len(tokens) # 2 \/ ~IsFloat(tokens[1]) \/ ~IsFloat(tokens[2])
        THEN st
        ELSE [st EXCEPT !.x_values = Append(@, Float(tokens[1])),
                        !.y_values = Append(@, Float(tokens[2]))]

\* DataLine with the two columns taken the other way round
DataLine_SwapXY(st, line) ==
    LET tokens == split(line, <<TAB>>)
    IN  IF Len(tokens) # 2 THEN [st EXCEPT !.err = "ValueError"]
        ELSE IF ~IsFloat(tokens[1]) \/ ~IsFloat(tokens[2])
            THEN [st EXCEPT !.err = "ValueError"]
        ELSE [st EXCEPT !.x_values = Append(@, Float(tokens[2])),
                        !.y_values = Append(@, Float(tokens[1]))]

\* a line of the data block: x, y = line.split(sep='\t'), then two appends
DataLine(st, line) ==
    LET tokens == split(line, <<TAB>>)
    IN  IF Len(tokens) # 2 THEN [st EXCEPT !.err = "ValueError"]
        ELSE IF ~IsFloat(tokens[1]) THEN [st EXCEPT !.err = "ValueError"]
        ELSE IF ~IsFloat(tokens[2])
            THEN [st EXCEPT !.x_values = Append(@, Float(tokens[1])),
                            !.err = "ValueError"]
        ELSE [st EXCEPT !.x_values = Append(@, Float(tokens[1])),
                        !.y_values = Append(@, Float(tokens[2]))]

\* HeaderLine that cuts at the first ': ' only (split with maxsplit=1)
HeaderLine_FirstSep(st, line) ==
    LET occ == Occurrences(line, <<COLON, SP>>)
    IN  IF occ = {} THEN [st EXCEPT !.err = "Exception"]
        ELSE [st EXCEPT !.header =
                  Put(@, SubSeq(line, 1, Least(occ) - 1),
                         SubSeq(line, Least(occ) + 2, Len(line)))]

\* a line of the header: parts = line.split(sep=': '), two parts or raise
HeaderLine(st, line) ==
    LET parts == split(line, <<COLON, SP>>)
    IN  IF Len(parts) # 2 THEN [st EXCEPT !.err = "Exception"]
        ELSE [st EXCEPT !.header = Put(@, parts[1], parts[2])]

\* ProcessLine that reads any line of two tab-separated tokens as data,
\* marker or no marker
ProcessLine_TabIsData(st, raw) ==
    LET line == rstrip(raw)
    IN  IF st.first_line
        THEN [st EXCEPT !.header = Put(@, Key("Description"), line),
                        !.first_line = FALSE]
        ELSE IF line = <<>> THEN st
        ELSE IF line = <<MARKER>> THEN [st EXCEPT !.data_block = TRUE]
        ELSE IF st.data_block \/ Len(split(line, <<TAB>>)) = 2
            THEN DataLine(st, line)
        ELSE HeaderLine(st, line)

\* ProcessLine in which a marker line switches the mode either way
ProcessLine_MarkerToggles(st, raw) ==
    LET line == rstrip(raw)
    IN  IF st.first_line
        THEN [st EXCEPT !.header = Put(@, Key("Description"), line),
                        !.first_line = FALSE]
        ELSE IF line = <<>> THEN st
        ELSE IF line = <<MARKER>> THEN [st EXCEPT !.data_block = ~@]
        ELSE IF st.data_block THEN DataLine(st, line)
        ELSE HeaderLine(st, line)

\* the body of `for line in f` on one line of the file
ProcessLine(st, raw) ==
    LET line == rstrip(raw)
    IN  IF st.first_line
        THEN [st EXCEPT !.header = Put(@, Key("Description"), line),
                        !.first_line = FALSE]
        ELSE IF line = <<>> THEN st
        ELSE IF line = <<MARKER>> THEN [st EXCEPT !.data_block = TRUE]
        ELSE IF st.data_block THEN DataLine(st, line)
        ELSE HeaderLine(st, line)

\* ResetHeader that keeps the header of the file read before
ResetHeader_Keep(h) == h

\* the dicts and the frame as read leaves them before it opens the file
ResetHeader(h) == EmptyDict
ResetMetadata(md) == EmptyDict
ResetData(d) == EmptyFrame

\* The filename read uses: the argument if it is given, else the stored one.
UsedFilename(fn) == IF fn # None THEN fn ELSE filename

\* read(fn) up to the opening of the file.  opened is what filename.open()
\* does: "ok", or the OSError it raises.  FileNotFoundError is caught and
\* printed, and read returns; any other exception leaves read.
ReadBegin(fn, opened) ==
    /\ pc = "idle"
    /\ reads < MaxReads
    /\ reads' = reads + 1
    /\ IF UsedFilename(fn) = None
       THEN \* Path(None) raises TypeError before anything is reset
            /\ outcome' = "TypeError"
            /\ printed' = FALSE
            /\ open_result' = "none"
            /\ UNCHANGED <<filename, header, metadata, data, pc, first_line,
                           data_block, x_values, y_values, consumed, eof>>
       ELSE /\ filename' = UsedFilename(fn)
            /\ header' = ResetHeader(header)
            /\ metadata' = ResetMetadata(metadata)
            /\ data' = ResetData(data)
            /\ x_values' = <<>>
            /\ y_values' = <<>>
            /\ first_line' = TRUE
            /\ data_block' = FALSE
            /\ consumed' = <<>>
            /\ eof' = FALSE
            /\ open_result' = opened
            /\ pc' = IF opened = "ok" THEN "reading" ELSE "idle"
            /\ outcome' = CASE opened = "ok" -> "running"
                            [] opened = "FileNotFoundError" -> "returned"
                            [] OTHER -> opened
            /\ printed' = (opened = "FileNotFoundError")
    /\ UNCHANGED <<encvars, unitvars>>

\* one turn of `for line in f`: the next line of the file is raw
ReadLine(raw) ==
    /\ pc = "reading"
    /\ LET st == ProcessLine(LoopState(header, x_values, y_values,
                                       first_line, data_block), raw)
       IN  /\ header' = st.header
           /\ x_values' = st.x_values
           /\ y_values' = st.y_values
           /\ first_line' = st.first_line
           /\ data_block' = st.data_block
           /\ pc' = IF st.err = "none" THEN "reading" ELSE "idle"
           /\ outcome' = IF st.err = "none" THEN "running" ELSE st.err
    /\ consumed' = Append(consumed, raw)
    /\ UNCHANGED <<filename, metadata, data, eof, open_result, printed, reads>>
    /\ UNCHANGED <<encvars, unitvars>>

\* RangeFields with the least and the greatest x
RangeFields_MinMax(md, xs) ==
    Put(Put(md, "lowest-observed-wavelength",
            CHOOSE v \in {xs[i] : i \in 1..Len(xs)} :
                \A i \in 1..Len(xs) : v <= xs[i]),
        "highest-observed-wavelength",
        CHOOSE v \in {xs[i] : i \in 1..Len(xs)} :
            \A i \in 1..Len(xs) : v >= xs[i])

\* the range summary: the first and the last x, given there is one
RangeFields(md, xs) ==
    Put(Put(md, "lowest-observed-wavelength", xs[1]),
        "highest-observed-wavelength", xs[Len(xs)])

\* the end of the file: _extract_metadata, the frame, the range summary
ReadEOF ==
    /\ pc = "reading"
    /\ LET r == extract_metadata(metadata, header)
       IN  IF r.err # "none"
           THEN /\ metadata' = r.md
                /\ data' = data
                /\ outcome' = r.err
           ELSE /\ data' = DataFrame(x_values, y_values,
                                     r.md["abscissa"].label,
                                     r.md["ordinate"].label)
                /\ IF x_values = <<>>
                   THEN /\ metadata' = r.md
                        /\ outcome' = "IndexError"
                   ELSE /\ metadata' = RangeFields(r.md, x_values)
                        /\ outcome' = "returned"
    /\ eof' = TRUE
    /\ pc' = "idle"
    /\ UNCHANGED <<filename, header, first_line, data_block,
                   x_values, y_values, consumed, open_result, printed,
                   reads>>
    /\ UNCHANGED <<encvars, unitvars>>

\* ------------------------------------------------------------------ inputs

Paths == {"a.txt", "b.txt"}

OpenResults == {"ok", "FileNotFoundError", "PermissionError"}

\* a line "key: value"
KV(k, v) == <<k, COLON, SP>> \o v

\* The lines of the files read under Spec: description, blank lines, the
\* marker, header lines well and badly formed, data lines well and badly
\* formed.
ParserLines ==
    { <<"Sample 1">>,
      <<>>,
      <<SP>>,
      <<MARKER>>,
      KV("Spectrometer", <<"USB4000">>),
      KV("Spectrometer", <<"QE65000">>),
      KV("Note", <<"a", COLON, SP, "b">>),
      <<"garbage">>,
      <<"200.1", TAB, "0.023">>,
      <<"850.0", TAB, "0.011", TAB>>,
      <<"1e3", TAB, SP, "0.5">>,
      <<"200.1", TAB, "abc">>,
      <<"850.0">>,
      <<"200.1", TAB, "0.023", TAB, "0.5">> }

\* ------------------------------------------------------ MultipleJsonEncoders

\* The converter classes handed to MultipleJsonEncoders.  JSONEncoder is
\* json's own, whose default rejects every value; StrEncoder stands for a
\* converter that takes every value.
EncoderClasses ==
    {"JsonPintEncoder", "JsonDatetimeEncoder", "JSONEncoder", "StrEncoder"}

\* The values json cannot represent by itself that default is called with:
\* what str() makes of each, and what the converter of its own kind makes.
Objects ==
    { [kind |-> "Quantity", str |-> "0.5 second", own |-> "0.5 s"],
      [kind |-> "datetime", str |-> "2020-02-27 15:05:24+00:00",
       own |-> "2020-02-27T15:05:24+00:00"],
      [kind |-> "set", str |-> "{1, 2}", own |-> ""],
      [kind |-> "complex", str |-> "(1+2j)", own |-> ""] }

\* cls(*args, **kwargs).default(obj): the value it returns, or no value
\* when it raises TypeError, which is how a converter rejects a value
ConverterDefault(cls, args, obj) ==
    CASE cls = "JsonPintEncoder" /\ obj.kind = "Quantity" ->
            [ok |-> TRUE, val |-> obj.own]
      [] cls = "JsonDatetimeEncoder" /\ obj.kind = "datetime" ->
            [ok |-> TRUE, val |-> obj.own]
      [] cls = "StrEncoder" -> [ok |-> TRUE, val |-> obj.str]
      [] OTHER -> [ok |-> FALSE, val |-> ""]

\* the arguments json.dumps constructs its encoder with
EncoderArgs == {"", "indent=4"}

\* no call of default yet
EncIdle ==
    /\ enc_args = ""
    /\ enc_obj = [kind |-> "none", str |-> "", own |-> ""]
    /\ enc_pc = "idle"
    /\ enc_i = 1
    /\ enc_tried = <<>>
    /\ enc_result = <<>>

\* __call__(*args, **kwargs): the arguments are kept for the converters
EncCall(args) ==
    /\ enc_pc # "loop"
    /\ enc_args' = args
    /\ UNCHANGED <<encoders, enc_obj, enc_pc, enc_i, enc_tried, enc_result>>
    /\ UNCHANGED <<readvars, unitvars>>

\* default(obj) is called: the loop over self.encoders starts
EncDefault(obj) ==
    /\ enc_pc # "loop"
    /\ enc_obj' = obj
    /\ enc_pc' = "loop"
    /\ enc_i' = 1
    /\ enc_tried' = <<>>
    /\ enc_result' = <<>>
    /\ UNCHANGED <<encoders, enc_args>>
    /\ UNCHANGED <<readvars, unitvars>>

\* EncTry in which a converter's value does not end the loop
EncTry_LastWins ==
    /\ enc_pc = "loop"
    /\ enc_i <= Len(encoders)
    /\ LET r == ConverterDefault(encoders[enc_i], enc_args, enc_obj)
       IN  /\ enc_tried' = Append(enc_tried, encoders[enc_i])
           /\ enc_result' = IF r.ok THEN <<r.val>> ELSE enc_result
           /\ enc_pc' = IF enc_i = Len(encoders) /\ (r.ok \/ enc_result # <<>>)
                        THEN "returned" ELSE "loop"
           /\ enc_i' = enc_i + 1
    /\ UNCHANGED <<encoders, enc_args, enc_obj>>
    /\ UNCHANGED <<readvars, unitvars>>

\* one turn of `for encoder in self.encoders`: the converter's value is
\* returned, or its TypeError is passed over
EncTry ==
    /\ enc_pc = "loop"
    /\ enc_i <= Len(encoders)
    /\ LET r == ConverterDefault(encoders[enc_i], enc_args, enc_obj)
       IN  /\ enc_tried' = Append(enc_tried, encoders[enc_i])
           /\ IF r.ok
              THEN /\ enc_result' = <<r.val>>
                   /\ enc_pc' = "returned"
                   /\ enc_i' = enc_i
              ELSE /\ enc_result' = enc_result
                   /\ enc_pc' = "loop"
                   /\ enc_i' = enc_i + 1
    /\ UNCHANGED <<encoders, enc_args, enc_obj>>
    /\ UNCHANGED <<readvars, unitvars>>

\* the loop is over and no converter returned: raise TypeError
EncRaise ==
    /\ enc_pc = "loop"
    /\ enc_i > Len(encoders)
    /\ enc_pc' = "TypeError"
    /\ UNCHANGED <<encoders, enc_args, enc_obj, enc_i, enc_tried, enc_result>>
    /\ UNCHANGED <<readvars, unitvars>>

\* the tuples of converters MultipleJsonEncoders(*encoders) is made with
EncoderTuples == UNION {[1..n -> EncoderClasses] : n \in 0..MaxEncoders}

\* -------------------------------------------------------- unitmanager calls

UnitLabels == {<<"wavelength">>, <<"absorbance">>, <<"x">>, <<"dwell-time">>}
UnitArgs == {None, "dimensionless", "nanometer", "second"}
UnitValues == {<<>>, <<0>>, <<1>>, <<280>>}

\* no call of unitmanager yet
UnitIdle ==
    /\ um_label = <<"x">>
    /\ um_unit = None
    /\ um_value = <<>>
    /\ um_called = FALSE
    /\ um_out = EmptyDict

\* unitmanager(um_label, um_unit, um_value) is called and returns
UnitCall ==
    /\ ~um_called
    /\ um_out' = unitmanager(um_label, um_unit, um_value)
    /\ um_called' = TRUE
    /\ UNCHANGED <<um_label, um_unit, um_value>>
    /\ UNCHANGED <<readvars, encvars>>

\* ------------------------------------------------------------ specification

\* The fields as __init__ assigns them; the constructor's own call of read
\* is the first ReadBegin.
ReadInit ==
    /\ filename = None
    /\ header = EmptyDict
    /\ metadata = EmptyDict
    /\ data = EmptyFrame
    /\ pc = "idle"
    /\ first_line = TRUE
    /\ data_block = FALSE
    /\ x_values = <<>>
    /\ y_values = <<>>
    /\ consumed = <<>>
    /\ eof = FALSE
    /\ open_result = "none"
    /\ outcome = "none"
    /\ printed = FALSE
    /\ reads = 0

\* the reader, with the encoder and unitmanager at rest
Init == ReadInit /\ EncIdle /\ encoders = <<>> /\ UnitIdle

Next ==
    \/ \E fn \in Paths \cup {None}, opened \in OpenResults : ReadBegin(fn, opened)
    \/ \E raw \in ParserLines : Len(consumed) < MaxLines /\ ReadLine(raw)
    \/ ReadEOF

Spec == Init /\ [][Next]_vars

\* ------------------------------------------------------ what the claims use

\* a read that opened its file has ended
ReadEnded == pc = "idle" /\ open_result = "ok"

\* a read has ended by returning, with the file read to its end
Succeeded == ReadEnded /\ outcome = "returned"

IsBlankLine(raw) == rstrip(raw) = <<>>
IsMarkerLine(raw) == rstrip(raw) = <<MARKER>>

\* the place of the marker line that starts the data block, 0 if none:
\* the first marker line after line 1
MarkerAt(lines) ==
    LET M == {i \in 2..Len(lines) : IsMarkerLine(lines[i])}
    IN  IF M = {} THEN 0 ELSE Least(M)

\* the lines after the marker line
AfterMarker(lines) ==
    IF MarkerAt(lines) = 0 THEN <<>>
    ELSE SubSeq(lines, MarkerAt(lines) + 1, Len(lines))

\* the places of the lines read in header mode: after line 1, before the
\* marker line
HeaderPlaces(lines) ==
    IF MarkerAt(lines) = 0 THEN 2..Len(lines) ELSE 2..(MarkerAt(lines) - 1)

\* the exceptions of a file that is not as it should be
StructuralErrors ==
    {"Exception", "ValueError", "IndexError", "UnknownTimeZoneError"}

\* ----------------------------------------------------------------------- C1

\* C1: a read whose file does not exist or cannot be opened ends by raising
\* the error of the open to its caller; it never returns normally.
C1_FileAccessErrorIsRaised ==
    (pc = "idle" /\ open_result \notin {"none", "ok"})
        => (outcome = open_result /\ ~printed)

\* ----------------------------------------------------------------------- C2

AllEmpty == header = EmptyDict /\ metadata = EmptyDict /\ data = EmptyFrame

\* header, metadata and data are those of one successful parse
OneCompleteParse ==
    /\ data.rows # <<>>
    /\ LET r == extract_metadata(EmptyDict, header)
           xs == [i \in 1..Len(data.rows) |-> data.rows[i][1]]
       IN  /\ r.err = "none"
           /\ metadata = RangeFields(r.md, xs)
           /\ data.columns = <<r.md["abscissa"].label, r.md["ordinate"].label>>

\* C2: after a read that ended with a structural error the instance is not
\* half-populated: header, metadata and data are all empty, or all those of
\* one complete parse.
C2_NeverHalfPopulated ==
    (ReadEnded /\ outcome \in StructuralErrors)
        => (AllEmpty \/ OneCompleteParse)

\* ----------------------------------------------------------------------- C3

NoMarker(lines) == \A i \in 1..Len(lines) : ~IsMarkerLine(lines[i])

\* C3 as stated: a file without the marker line, read to its end, makes read
\* return without an error, with no x and no y.
C3_NoMarkerReadReturns ==
    (ReadEnded /\ eof /\ NoMarker(consumed))
        => (outcome = "returned" /\ x_values = <<>> /\ y_values = <<>>)

\* C3 as amended: reading a file without the marker line never adds an x or a
\* y, whatever header lines it holds, and the frame gets no row; but read
\* does not return: at the end of the file it raises IndexError at the
\* range summary, unless a header line or a metadata field raised before.
C3_NoMarkerReadFails ==
    (open_result = "ok" /\ NoMarker(consumed))
        => /\ x_values = <<>> /\ y_values = <<>> /\ data.rows = <<>>
           /\ outcome # "returned"
           /\ (eof /\ extract_metadata(EmptyDict, header).err = "none")
                  => (outcome = "IndexError"
                      /\ "lowest-observed-wavelength" \notin DOMAIN metadata)

C3_Witness ==
    /\ ReadEnded /\ eof /\ NoMarker(consumed)
    /\ outcome = "IndexError"
    /\ Key("Spectrometer") \in DOMAIN header
    /\ x_values = <<>>

\* ----------------------------------------------------------------------- C4

\* the lines after the marker that the loop passes over: blank lines and
\* further marker lines
Skipped(raw) == IsBlankLine(raw) \/ IsMarkerLine(raw)

CountUnskipped(lines) == Cardinality({i \in 1..Len(lines) : ~Skipped(lines[i])})

\* C4 as stated: after a successful read x and y are as long as each other,
\* and as long as the file has lines after the marker.
C4_LengthIsLinesAfterMarker ==
    Succeeded =>
        /\ Len(x_values) = Len(y_values)
        /\ Len(data.rows) = Len(x_values)
        /\ Len(data.rows) = Len(AfterMarker(consumed))

\* C4 as amended: after a successful read x and y are as long as each other,
\* and as long as the file has lines after the marker that are neither blank
\* (once trailing whitespace is removed) nor the marker again.
C4_LengthIsDataLinesAfterMarker ==
    Succeeded =>
        /\ Len(x_values) = Len(y_values)
        /\ Len(data.rows) = Len(x_values)
        /\ Len(data.rows) = CountUnskipped(AfterMarker(consumed))

C4_Witness ==
    /\ Succeeded
    /\ Len(data.rows) >= 1
    /\ \E i \in 1..Len(AfterMarker(consumed)) : Skipped(AfterMarker(consumed)[i])

\* ----------------------------------------------------------------------- C5

\* the loop run over all of lines
RECURSIVE ParseAll(_, _)
ParseAll(st, lines) ==
    IF lines = <<>> \/ st.err # "none" THEN st
    ELSE ParseAll(ProcessLine(st, Head(lines)), Tail(lines))

\* header, metadata and data of an instance constructed on a file of these
\* lines, given that the constructor returns
FreshInstance(lines) ==
    LET st == ParseAll(LoopState(EmptyDict, <<>>, <<>>, TRUE, FALSE), lines)
        r == extract_metadata(EmptyDict, st.header)
    IN  [header |-> st.header,
         metadata |-> RangeFields(r.md, st.x_values),
         data |-> DataFrame(st.x_values, st.y_values,
                            r.md["abscissa"].label, r.md["ordinate"].label)]

\* C5: after a successful read, whatever was read before, header, metadata
\* and data are those of a fresh instance constructed on the same file.
C5_RereadEqualsFresh ==
    Succeeded =>
        /\ header = FreshInstance(consumed).header
        /\ metadata = FreshInstance(consumed).metadata
        /\ data = FreshInstance(consumed).data

C5_Witness == Succeeded /\ reads >= 2 /\ DOMAIN header = {Key("Description")}

\* ----------------------------------------------------------------------- C6

\* the line, trailing whitespace removed, is two tab-separated numbers
Conforming(raw) ==
    LET t == split(rstrip(raw), <<TAB>>)
    IN  Len(t) = 2 /\ IsFloat(t[1]) /\ IsFloat(t[2])

\* the numbers in column c of the conforming lines, in file order
Column(lines, c) ==
    LET good == SelectSeq(lines, Conforming)
    IN  [i \in 1..Len(good) |-> Float(split(rstrip(good[i]), <<TAB>>)[c])]

\* C6 as stated: of the lines after the marker every one that is not two
\* tab-separated numbers makes read fail, none is passed over; while all
\* conform, x and y hold one value for each, in file order.
C6_EveryOddDataLineFails ==
    (open_result = "ok" /\ MarkerAt(consumed) > 0) =>
        LET D == AfterMarker(consumed)
            bad == {i \in 1..Len(D) : ~Conforming(D[i])}
        IN  IF bad = {}
            THEN /\ pc = "reading" \/ eof
                 /\ x_values = Column(D, 1)
                 /\ y_values = Column(D, 2)
            ELSE /\ bad = {Len(D)}
                 /\ pc = "idle" /\ ~eof /\ outcome \in StructuralErrors

\* C6 as amended: of the lines after the marker, a blank line (once trailing
\* whitespace is removed) and a further marker line are passed over without
\* an error and add nothing; every other line that, trailing whitespace
\* removed, is not two tab-separated numbers makes read fail with
\* ValueError, and nothing after it is read; each conforming line adds one
\* value to x and one to y, in file order.
C6_OddDataLineFailsUnlessSkipped ==
    (open_result = "ok" /\ MarkerAt(consumed) > 0) =>
        LET D == AfterMarker(consumed)
            bad == {i \in 1..Len(D) : ~Conforming(D[i]) /\ ~Skipped(D[i])}
        IN  IF bad = {}
            THEN /\ pc = "reading" \/ eof
                 /\ x_values = Column(D, 1)
                 /\ y_values = Column(D, 2)
            ELSE /\ bad = {Len(D)}
                 /\ pc = "idle" /\ ~eof /\ outcome = "ValueError"

C6_Witness ==
    /\ pc = "idle" /\ outcome = "ValueError"
    /\ MarkerAt(consumed) = 2
    /\ Len(consumed) = 4
    /\ Conforming(consumed[3])
    /\ ~Conforming(consumed[4]) /\ ~Skipped(consumed[4])
    /\ x_values = Column(<<consumed[3]>>, 1)
    /\ y_values = Column(<<consumed[3]>>, 2)

\* ----------------------------------------------------------------------- C7

Sep == <<COLON, SP>>

\* how often ': ' occurs in the line, trailing whitespace removed
SepCount(raw) == Cardinality(Occurrences(rstrip(raw), Sep))

\* the line cut at its first ': '
BeforeFirstSep(raw) ==
    SubSeq(rstrip(raw), 1, Least(Occurrences(rstrip(raw), Sep)) - 1)
AfterFirstSep(raw) ==
    SubSeq(rstrip(raw), Least(Occurrences(rstrip(raw), Sep)) + 2,
           Len(rstrip(raw)))

\* the header of lines 1..n, none of 2..n being the marker: line 1 as the
\* Description, every other line that is not blank cut at its first ': ',
\* later keys over earlier ones
RECURSIVE ExpectedHeader(_, _)
ExpectedHeader(lines, n) ==
    IF n = 0 THEN EmptyDict
    ELSE IF n = 1 THEN Put(EmptyDict, Key("Description"), rstrip(lines[1]))
    ELSE IF IsBlankLine(lines[n]) THEN ExpectedHeader(lines, n - 1)
    ELSE Put(ExpectedHeader(lines, n - 1),
             BeforeFirstSep(lines[n]), AfterFirstSep(lines[n]))

\* the last place of the header part of the lines read
HeaderEnd(lines) ==
    IF MarkerAt(lines) = 0 THEN Len(lines) ELSE MarkerAt(lines) - 1

\* C7 as stated: a header line with a ': ' is cut at the first ': ' and
\* stored, whatever follows the first ': '; a header line without ': ' makes
\* read fail.
C7_HeaderLineCutAtFirstSep ==
    (open_result = "ok" /\ consumed # <<>>) =>
        LET bad == {i \in HeaderPlaces(consumed) :
                        ~IsBlankLine(consumed[i]) /\ SepCount(consumed[i]) = 0}
        IN  IF bad = {}
            THEN /\ outcome # "Exception"
                 /\ header = ExpectedHeader(consumed, HeaderEnd(consumed))
            ELSE /\ bad = {Len(consumed)}
                 /\ pc = "idle" /\ outcome = "Exception"

\* C7 as amended: a header line with exactly one ': ' (trailing whitespace
\* removed first) is cut there and stored as header[before] = after, a later
\* duplicate key replacing the earlier value; a header line with no ': ' or
\* with more than one makes read fail with Exception, the header holding
\* the lines before it.
C7_HeaderLineNeedsOneSep ==
    (open_result = "ok" /\ consumed # <<>>) =>
        LET bad == {i \in HeaderPlaces(consumed) :
                        ~IsBlankLine(consumed[i]) /\ SepCount(consumed[i]) # 1}
        IN  IF bad = {}
            THEN /\ outcome # "Exception"
                 /\ header = ExpectedHeader(consumed, HeaderEnd(consumed))
            ELSE /\ bad = {Len(consumed)}
                 /\ pc = "idle" /\ outcome = "Exception"
                 /\ header = ExpectedHeader(consumed, Len(consumed) - 1)

C7_Witness ==
    /\ open_result = "ok"
    /\ Len(consumed) >= 3
    /\ consumed[2] = KV("Spectrometer", <<"USB4000">>)
    /\ consumed[3] = KV("Spectrometer", <<"QE65000">>)
    /\ header[Key("Spectrometer")] = <<"QE65000">>

\* ---------------------------------------------------------------------- C10

\* C10: after a successful read the lowest and the highest observed
\* wavelength are the first and the last x in file order; a file read to its
\* end without any x makes read fail with IndexError and stores neither.
C10_RangeIsFirstAndLast ==
    /\ Succeeded =>
          /\ x_values # <<>>
          /\ x_values = Column(AfterMarker(consumed), 1)
          /\ metadata["lowest-observed-wavelength"] = x_values[1]
          /\ metadata["highest-observed-wavelength"] = x_values[Len(x_values)]
    /\ (ReadEnded /\ eof /\ x_values = <<>>) =>
          /\ outcome # "returned"
          /\ "lowest-observed-wavelength" \notin DOMAIN metadata
          /\ "highest-observed-wavelength" \notin DOMAIN metadata
          /\ extract_metadata(EmptyDict, header).err = "none"
                 => outcome = "IndexError"

C10_Witness ==
    /\ Succeeded
    /\ Len(x_values) >= 2
    /\ x_values[1] > x_values[Len(x_values)]
    /\ metadata["lowest-observed-wavelength"] > metadata["highest-observed-wavelength"]

\* The files read under SpecMeta keep the vendor's layout: the description,
\* a blank line, the header keys in the vendor's order, each at most once,
\* the marker, one data line.  A file may leave any of them out.
MetaGroups ==
    << { <<"Sample 1">> },
       { <<>> },
       { KV("Date", <<"Thu", SP, "Feb", SP, "27", SP, "15:05:24", SP,
                      "GMT", SP, "2020">>),
         KV("Date", <<"Thu", SP, "Feb", SP, "31", SP, "15:05:24", SP,
                      "GMT", SP, "2020">>),
         KV("Date", <<"Thu", SP, "Feb", SP, "27", SP, "15:05:24", SP,
                      "XYZ", SP, "2020">>),
         KV("Date", <<"2020-02-27">>) },
       { KV("Spectrometer", <<"USB4000">>) },
       { KV("Trigger mode", <<"4">>), KV("Trigger mode", <<"abc">>) },
       { KV("Integration Time (sec)", <<"0.5">>) },
       { KV("Scans to average", <<"10">>) },
       { KV("Nonlinearity correction enabled", <<"false">>),
         KV("Nonlinearity correction enabled", <<"true">>) },
       { KV("Boxcar width", <<"0">>) },
       { KV("Storing dark spectrum", <<"False">>),
         KV("Storing dark spectrum", <<"FALSE">>),
         KV("Storing dark spectrum", <<"no">>) },
       { KV("XAxis mode", <<"Wavelengths">>),
         KV("XAxis mode", <<"WAVELENGTHS">>),
         KV("XAxis mode", <<"Pixels">>) },
       { KV("Number of Pixels in Spectrum", <<"2048">>) },
       { <<MARKER>> },
       { <<"200.1", TAB, "0.023">> } >>

\* the place in the layout of a line of MetaGroups
GroupOf(raw) == CHOOSE g \in 1..Len(MetaGroups) : raw \in MetaGroups[g]

\* the lines that may follow the lines read so far
MetaNext(lines) ==
    IF lines = <<>> THEN MetaGroups[1]
    ELSE UNION {MetaGroups[g] : g \in (GroupOf(Last(lines)) + 1)..Len(MetaGroups)}

NextMeta ==
    \/ \E fn \in Paths \cup {None}, opened \in OpenResults : ReadBegin(fn, opened)
    \/ \E raw \in MetaNext(consumed) :
            Len(consumed) < MaxMetaLines /\ ReadLine(raw)
    \/ ReadEOF

SpecMeta == Init /\ [][NextMeta]_vars

\* ----------------------------------------------------------------------- C8

\* the header keys with an optional metadata field each, and the field
OptionalFields ==
    { <<"Trigger mode", "Trigger mode">>,
      <<"Scans to average", "scans">>,
      <<"Integration Time (sec)", "dwell-time">>,
      <<"Nonlinearity correction enabled", "Nonlinearity correction enabled">>,
      <<"Boxcar width", "Boxcar width">>,
      <<"Storing dark spectrum", "Storing dark spectrum">>,
      <<"Number of Pixels in Spectrum", "number-of-data-points">>,
      <<"Date", "acquisition-date">> }

BooleanFields == {"Nonlinearity correction enabled", "Storing dark spectrum"}

\* the spellings of 'false' among the header values read
FalseSpellings == {<<"false">>, <<"False">>, <<"FALSE">>}

\* C8: after a successful read each optional metadata field is there if and
\* only if its header key is; the two boolean fields are False exactly for
\* a header value spelling 'false' in any case, and True otherwise.
C8_OptionalFieldIffHeaderKey ==
    Succeeded =>
        /\ \A p \in OptionalFields :
              p[2] \in DOMAIN metadata <=> Key(p[1]) \in DOMAIN header
        /\ "spectrometer" \in DOMAIN metadata["instrument"]
              <=> Key("Spectrometer") \in DOMAIN header
        /\ Key("Spectrometer") \in DOMAIN header
              => metadata["instrument"].spectrometer = header[Key("Spectrometer")]
        /\ \A b \in BooleanFields :
              Key(b) \in DOMAIN header =>
                  metadata[b] = (header[Key(b)] \notin FalseSpellings)

C8_Witness ==
    /\ Succeeded
    /\ Key("Storing dark spectrum") \in DOMAIN header
    /\ header[Key("Storing dark spectrum")] = <<"False">>
    /\ metadata["Storing dark spectrum"] = FALSE
    /\ Key("Date") \in DOMAIN header
    /\ "acquisition-date" \in DOMAIN metadata
    /\ "Trigger mode" \notin DOMAIN metadata

\* ----------------------------------------------------------------------- C9

\* the spellings of 'wavelengths' among the header values read
WavelengthsSpellings == {<<"wavelengths">>, <<"Wavelengths">>, <<"WAVELENGTHS">>}

\* the text 'wavelength (nm)'
WavelengthLabel == <<"wavelength", SP, "(", "nm", ")">>

\* C9: after a successful read the metadata holds both axes.  The abscissa
\* is wavelength in nm if 'XAxis mode' spells 'wavelengths' in any case, the
\* raw header value without a unit if it is anything else, and 'x' if the
\* header has no 'XAxis mode'; the ordinate is always absorbance, without a
\* unit.
C9_AxesFollowXAxisMode ==
    Succeeded =>
        /\ {"abscissa", "ordinate"} \subseteq DOMAIN metadata
        /\ LET a == metadata["abscissa"]
               k == Key("XAxis mode")
           IN  IF k \notin DOMAIN header
               THEN a.name = <<"x">> /\ a.label = <<"x">> /\ a.unit = <<>>
               ELSE IF header[k] \in WavelengthsSpellings
               THEN /\ a.name = <<"wavelength">>
                    /\ a.label = WavelengthLabel
                    /\ a.unit = <<"nm">>
               ELSE a.name = header[k] /\ a.label = header[k] /\ a.unit = <<>>
        /\ metadata["ordinate"].name = <<"absorbance">>
        /\ metadata["ordinate"].label = <<"absorbance">>
        /\ metadata["ordinate"].unit = <<>>
        /\ DOMAIN metadata["abscissa"] = {"name", "unit", "label"}
        /\ DOMAIN metadata["ordinate"] = {"name", "unit", "label"}

C9_Witness ==
    /\ Succeeded
    /\ Key("XAxis mode") \in DOMAIN header
    /\ header[Key("XAxis mode")] = <<"WAVELENGTHS">>
    /\ metadata["abscissa"].label = WavelengthLabel
    /\ data.columns = <<WavelengthLabel, <<"absorbance">>>>

\* ---------------------------------------------------------------------- C11

\* A MultipleJsonEncoders made with any tuple of converters; json.dumps
\* calls it, and calls default with the values json cannot represent.
InitEnc == ReadInit /\ EncIdle /\ encoders \in EncoderTuples /\ UnitIdle

NextEnc ==
    \/ \E args \in EncoderArgs : EncCall(args)
    \/ \E obj \in Objects : EncDefault(obj)
    \/ EncTry
    \/ EncRaise

SpecEnc == InitEnc /\ [][NextEnc]_vars

\* the place of the first converter that takes the value, 0 if none does
FirstAccepting(encs, args, obj) ==
    LET A == {i \in 1..Len(encs) : ConverterDefault(encs[i], args, obj).ok}
    IN  IF A = {} THEN 0 ELSE Least(A)

\* C11: default consults the converters in the order they were given; it
\* returns the value of the first one that takes the value, and consults
\* none after it; if none takes the value it raises TypeError and returns
\* nothing.
C11_FirstAcceptingConverterWins ==
    LET k == FirstAccepting(encoders, enc_args, enc_obj)
    IN  /\ enc_tried = SubSeq(encoders, 1, Len(enc_tried))
        /\ enc_pc = "loop" => (enc_result = <<>> /\ (k = 0 \/ Len(enc_tried) < k))
        /\ enc_pc = "returned" =>
              /\ k > 0
              /\ Len(enc_tried) = k
              /\ enc_result = <<ConverterDefault(encoders[k], enc_args, enc_obj).val>>
        /\ enc_pc = "TypeError" =>
              /\ k = 0
              /\ enc_tried = encoders
              /\ enc_result = <<>>

C11_Witness ==
    /\ enc_pc = "returned"
    /\ Len(encoders) = 3
    /\ Len(enc_tried) = 2
    /\ ConverterDefault(encoders[1], enc_args, enc_obj).ok = FALSE
    /\ ConverterDefault(encoders[3], enc_args, enc_obj).ok
    /\ enc_result # <<ConverterDefault(encoders[3], enc_args, enc_obj).val>>

\* ---------------------------------------------------------------------- C12

\* C12: read without a filename, on an instance that holds none, raises
\* FileNotFoundError.
C12_NoFilenameRaisesFileNotFound ==
    (pc = "idle" /\ reads > 0 /\ filename = None)
        => outcome = "FileNotFoundError"

\* ---------------------------------------------------------------------- C13

\* one call of unitmanager, with any label, unit and optional number
InitUnit ==
    /\ ReadInit /\ EncIdle /\ encoders = <<>>
    /\ um_label \in UnitLabels
    /\ um_unit \in UnitArgs
    /\ um_value \in UnitValues
    /\ um_called = FALSE
    /\ um_out = EmptyDict

NextUnit == UnitCall

SpecUnit == InitUnit /\ [][NextUnit]_vars

\* the unit string of the output: empty for no unit and for dimensionless
UnitText(unit) ==
    IF unit \in {None, "dimensionless"} THEN <<>>
    ELSE IF unit = "nanometer" THEN <<"nm">>
    ELSE <<"s">>

\* C13: for every number supplied, 0 included, the output holds 'value' and
\* 'quantity' ('{value}', or '{value} {unit}' with a unit); without a number
\* it holds neither; 'label' is the name, or '{name} ({unit})' with a unit.
C13_QuantityForEveryNumber ==
    um_called =>
        LET u == UnitText(um_unit)
        IN  /\ um_out.label =
                  IF u = <<>> THEN um_label
                  ELSE um_label \o <<SP, "(">> \o u \o <<")">>
            /\ IF um_value = <<>>
               THEN DOMAIN um_out = {"name", "unit", "label"}
               ELSE /\ DOMAIN um_out = {"name", "unit", "label", "value", "quantity"}
                    /\ um_out.value = um_value[1]
                    /\ um_out.quantity =
                          IF u = <<>> THEN NumberText(um_value[1])
                          ELSE NumberText(um_value[1]) \o <<SP>> \o u

\* ---------------------------------------------------------------------- C14

\* C14: within one read the mode goes from header to data block and never
\* back, and no line read in the data block adds or changes a header key;
\* line 1 becomes header['Description'] and nothing else, whatever it is.
C14_ModeNeverGoesBack ==
    [][ reads' = reads =>
          /\ data_block => (data_block' /\ header' = header)
          /\ (pc = "reading" /\ consumed = <<>> /\ consumed' # <<>>) =>
                /\ header' = Put(EmptyDict, Key("Description"),
                                 rstrip(consumed'[1]))
                /\ ~data_block'
                /\ pc' = "reading"
                /\ x_values' = <<>> /\ y_values' = <<>>
      ]_vars

C14_Witness ==
    /\ pc = "idle" /\ outcome = "ValueError"
    /\ data_block
    /\ consumed = << <<MARKER>>, <<MARKER>>, <<MARKER>>,
                     KV("Spectrometer", <<"USB4000">>) >>
    /\ header = Put(EmptyDict, Key("Description"), <<MARKER>>)

====
